---- MODULE Spec2Model ----
(***************************************************************************)
(* Model of app.py: the flat-file user store (users.json), the Streamlit   *)
(* session handlers built on it, the concurrent execution of store         *)
(* operations by several script runs, and the store on a file system whose *)
(* operations can fail.                                                    *)
(*                                                                         *)
(* Strings are sequences of one-character strings.  A Python dict is a     *)
(* sequence of entries in insertion order.  users.json is a sequence of    *)
(* tokens, the unit in which a writer's output reaches the disk.           *)
(* hashlib.sha256 is taken to be collision free: the digest of a string is *)
(* that string under the tag "sha256".                                     *)
(***************************************************************************)
EXTENDS Integers, Sequences, FiniteSets, TLC

VARIABLES
    file,      \* users.json: [exists, text]
    dirs,      \* the sub-directories of upload/ that exist
    clock,     \* datetime.now()
    last,      \* the last completed call: [op, args, ret, before, calls]: before is
               \* the file it found, calls the store functions a handler called
    session,   \* st.session_state: [authenticated, username]
    model,     \* the module-level model: "None" or "loaded"
    pc,        \* per script run: position in the store operation it executes
    call,      \* per script run: the operation and its arguments
    data,      \* per script run: the local variable data
    out,       \* per script run: what the handle opened by save_users still has to write
    acked,     \* the mutating calls that returned to their caller
    prev       \* the call before the last one: [op, args]

vars == <<file, dirs, clock, last, session, model, pc, call, data, out, acked, prev>>

sessVars == <<session, model>>
procVars == <<pc, call, data, out>>

----------------------------------------------------------------------------
(* Bounds *)

MaxHist == 2        \* longest history the store-level specification builds
MaxAppends == 52    \* appends of the long-history specification
MaxCalls == 3       \* store calls of the concurrent specification
MaxClock == 4       \* readings of the clock in the session specification

(* Program constants *)

HISTORY_CAP == 50   \* history[:50]
SALT_BYTES == 8     \* secrets.token_hex(8)

----------------------------------------------------------------------------
(* Strings *)

Whitespace == {" ", "\t"}

RECURSIVE LStrip(_)
LStrip(s) ==
    IF s # <<>> /\ Head(s) \in Whitespace THEN LStrip(Tail(s)) ELSE s

RECURSIVE RStrip(_)
RStrip(s) ==
    IF s # <<>> /\ s[Len(s)] \in Whitespace
    THEN RStrip(SubSeq(s, 1, Len(s) - 1))
    ELSE s

\* str.strip()
Strip(s) == RStrip(LStrip(s))

\* " " in s
HasSpace(s) == \E i \in 1..Len(s) : s[i] = " "

\* s[:n]
Take(s, n) == SubSeq(s, 1, IF Len(s) < n THEN Len(s) ELSE n)

HexDigits == <<"0", "1", "2", "3", "4", "5", "6", "7",
               "8", "9", "a", "b", "c", "d", "e", "f">>

HexByte(b) == <<HexDigits[(b \div 16) + 1], HexDigits[(b % 16) + 1]>>

RECURSIVE HexEncode(_)
HexEncode(bytes) ==
    IF bytes = <<>> THEN <<>> ELSE HexByte(Head(bytes)) \o HexEncode(Tail(bytes))

\* The byte strings os.urandom is sampled at: n times the same byte.
SampleBytes == {0, 171}
RandomBytes(n) == {[i \in 1..n |-> b] : b \in SampleBytes}

\* secrets.token_hex(nbytes): the possible results
TokenHex(nbytes) == {HexEncode(bs) : bs \in RandomBytes(nbytes)}

Sha256Hex(s) == <<"sha256">> \o s

hash_password(password, salt) == Sha256Hex(salt \o password)

----------------------------------------------------------------------------
(* dict data["users"]: entries in insertion order *)

Has(users, username) == \E i \in 1..Len(users) : users[i].name = username

IndexOf(users, username) ==
    CHOOSE i \in 1..Len(users) : users[i].name = username

Get(users, username) == users[IndexOf(users, username)]

Keys(users) == {users[i].name : i \in 1..Len(users)}

\* users[username] = rec
Put(users, rec) ==
    IF Has(users, rec.name)
    THEN [users EXCEPT ![IndexOf(users, rec.name)] = rec]
    ELSE Append(users, rec)

----------------------------------------------------------------------------
(* json.dump / json.load of the document {"users": {...}} *)

Open == [t |-> "{"]
Close == [t |-> "}"]

UserToken(u) ==
    [t |-> "user", name |-> u.name, full_name |-> u.full_name, salt |-> u.salt,
     pwd_hash |-> u.pwd_hash, created_at |-> u.created_at]

ItemTokens(history) == [i \in 1..Len(history) |-> [t |-> "item", item |-> history[i]]]

RECURSIVE DumpUsers(_)
DumpUsers(users) ==
    IF users = <<>> THEN <<>>
    ELSE <<UserToken(Head(users))>> \o ItemTokens(Head(users).history)
         \o DumpUsers(Tail(users))

Dump(users) == <<Open>> \o DumpUsers(users) \o <<Close>>

\* The text is one complete document: braces at both ends and nowhere else,
\* and no history item before the first user.
WellFormed(text) ==
    /\ Len(text) >= 2
    /\ text[1].t = "{"
    /\ text[Len(text)].t = "}"
    /\ \A i \in 2..(Len(text) - 1) : text[i].t \in {"user", "item"}
    /\ Len(text) > 2 => text[2].t = "user"

RECURSIVE ParseUsers(_, _, _)
ParseUsers(toks, users, cur) ==
    IF toks = <<>> THEN users
    ELSE LET tk == Head(toks) IN
         IF tk.t = "user"
         THEN ParseUsers(Tail(toks),
                  Put(users, [name |-> tk.name, full_name |-> tk.full_name,
                              salt |-> tk.salt, pwd_hash |-> tk.pwd_hash,
                              created_at |-> tk.created_at, history |-> <<>>]),
                  tk.name)
         ELSE LET n == IndexOf(users, cur) IN
              ParseUsers(Tail(toks),
                  [users EXCEPT ![n].history = Append(users[n].history, tk.item)],
                  cur)

\* json.load: [ok, users]; ok = FALSE is json.JSONDecodeError
Load(text) ==
    IF WellFormed(text)
    THEN [ok |-> TRUE, users |-> ParseUsers(SubSeq(text, 2, Len(text) - 1), <<>>, <<>>)]
    ELSE [ok |-> FALSE, users |-> <<>>]

----------------------------------------------------------------------------
(* The store: functions of the world w = [file, dirs, clock] that return   *)
(* the world they leave and the value they return or the exception they    *)
(* raise.                                                                  *)

Return(v) == [kind |-> "return", val |-> v]
Raise(e) == [kind |-> "raise", val |-> <<e>>]

None == Return(<<"None">>)
UserCreated == Return(<<"True", "User created.">>)
AlreadyExists == Return(<<"False", "Username already exists.">>)
LoginSuccessful == Return(<<"True", "Login successful.">>)
NotFound == Return(<<"False", "Username not found.">>)
WrongPassword == Return(<<"False", "Incorrect password.">>)
JSONDecodeError == Raise("JSONDecodeError")

BASE_UPLOAD_DIR == <<"upload">>
UserDir(username) == BASE_UPLOAD_DIR \o <<"/">> \o username

EmptyFile == [exists |-> FALSE, text |-> <<>>]
FileOf(users) == [exists |-> TRUE, text |-> Dump(users)]

\* ensure_files without the test of os.path.exists
ensure_files_always_writes(w) ==
    [w EXCEPT !.dirs = @ \cup {BASE_UPLOAD_DIR}, !.file = FileOf(<<>>)]

ensure_files(w) ==
    [w EXCEPT !.dirs = @ \cup {BASE_UPLOAD_DIR},
              !.file = IF @.exists THEN @ ELSE FileOf(<<>>)]

\* load_users: the world after ensure_files and the document read
load_users(w) ==
    LET w1 == ensure_files(w) IN [w |-> w1, doc |-> Load(w1.file.text)]

save_users(w, users) == [w EXCEPT !.file = FileOf(users)]

NewUser(username, password, full_name, salt, now) ==
    [name |-> username, full_name |-> full_name, salt |-> salt,
     pwd_hash |-> hash_password(password, salt), created_at |-> now,
     history |-> <<>>]

\* history.append(item) in place of history.insert(0, item)
InsertItem_appends(users, username, item) ==
    [users EXCEPT ![IndexOf(users, username)].history =
        Take(@ \o <<item>>, HISTORY_CAP)]

\* history[-50:] in place of history[:50]
InsertItem_keeps_oldest(users, username, item) ==
    [users EXCEPT ![IndexOf(users, username)].history =
        LET h == <<item>> \o @ IN
        IF Len(h) <= HISTORY_CAP THEN h ELSE SubSeq(h, Len(h) - HISTORY_CAP + 1, Len(h))]

\* the item inserted into the history of every user
InsertItem_every_user(users, username, item) ==
    [i \in 1..Len(users) |->
        [users[i] EXCEPT !.history = Take(<<item>> \o @, HISTORY_CAP)]]

\* history.insert(0, item); history = history[:50]
InsertItem(users, username, item) ==
    [users EXCEPT ![IndexOf(users, username)].history =
        Take(<<item>> \o @, HISTORY_CAP)]

\* create_user without the test for an existing key
create_user_overwrites(w, username, password, full_name, salt) ==
    LET ld == load_users(w)
        rec == NewUser(username, password, full_name, salt, ld.w.clock)
        w2 == save_users(ld.w, Put(ld.doc.users, rec))
    IN [w |-> [w2 EXCEPT !.clock = @ + 1, !.dirs = @ \cup {UserDir(username)}],
        ret |-> UserCreated]

create_user(w, username, password, full_name, salt) ==
    LET ld == load_users(w) IN
    IF ~ld.doc.ok THEN [w |-> ld.w, ret |-> JSONDecodeError]
    ELSE IF Has(ld.doc.users, username) THEN [w |-> ld.w, ret |-> AlreadyExists]
    ELSE LET rec == NewUser(username, password, full_name, salt, ld.w.clock)
             w2 == save_users(ld.w, Put(ld.doc.users, rec))
         IN [w |-> [w2 EXCEPT !.clock = @ + 1,
                              !.dirs = @ \cup {UserDir(username)}],
             ret |-> UserCreated]

\* verify_user hashing password + salt instead of salt + password
verify_user_swapped(w, username, password) ==
    LET ld == load_users(w) IN
    IF ~Has(ld.doc.users, username) THEN [w |-> ld.w, ret |-> NotFound]
    ELSE LET user == Get(ld.doc.users, username) IN
         IF hash_password(user.salt, password) = user.pwd_hash
         THEN [w |-> ld.w, ret |-> LoginSuccessful]
         ELSE [w |-> ld.w, ret |-> WrongPassword]

\* verify_user answering every failure with the same message
verify_user_one_failure(w, username, password) ==
    LET ld == load_users(w) IN
    IF Has(ld.doc.users, username)
       /\ hash_password(password, Get(ld.doc.users, username).salt)
            = Get(ld.doc.users, username).pwd_hash
    THEN [w |-> ld.w, ret |-> LoginSuccessful]
    ELSE [w |-> ld.w, ret |-> WrongPassword]

verify_user(w, username, password) ==
    LET ld == load_users(w) IN
    IF ~ld.doc.ok THEN [w |-> ld.w, ret |-> JSONDecodeError]
    ELSE IF ~Has(ld.doc.users, username) THEN [w |-> ld.w, ret |-> NotFound]
    ELSE LET user == Get(ld.doc.users, username) IN
         IF hash_password(password, user.salt) = user.pwd_hash
         THEN [w |-> ld.w, ret |-> LoginSuccessful]
         ELSE [w |-> ld.w, ret |-> WrongPassword]

\* add_history_for_user creating the record it does not find
add_history_for_user_upsert(w, username, item) ==
    LET ld == load_users(w)
        users == IF Has(ld.doc.users, username) THEN ld.doc.users
                 ELSE Put(ld.doc.users, NewUser(username, <<>>, <<>>, <<>>, 0))
    IN [w |-> save_users(ld.w, InsertItem(users, username, item)), ret |-> None]

add_history_for_user(w, username, item) ==
    LET ld == load_users(w) IN
    IF ~ld.doc.ok THEN [w |-> ld.w, ret |-> JSONDecodeError]
    ELSE IF Has(ld.doc.users, username)
    THEN [w |-> save_users(ld.w, InsertItem(ld.doc.users, username, item)),
          ret |-> None]
    ELSE [w |-> ld.w, ret |-> None]

----------------------------------------------------------------------------
(* State *)

World == [file |-> file, dirs |-> dirs, clock |-> clock]

\* The document on disk, as a reader would load it now.
Users == Load(file.text).users

HistoryOf(username) == Get(Users, username).history

NoCall == [op |-> "none", args |-> <<>>, ret |-> None, before |-> EmptyFile,
           calls |-> <<>>]

\* The document the last call found on disk.
Before == Load(last.before.text).users

Procs == {1, 2}

NoOutput == [toks |-> <<>>, pos |-> 0]

Init ==
    /\ file = EmptyFile
    /\ dirs = {}
    /\ clock = 0
    /\ last = NoCall
    /\ session = [authenticated |-> FALSE, username |-> <<>>]
    /\ model \in {"None", "loaded"}   \* load_ecg_model succeeded or not
    /\ pc = [p \in Procs |-> "idle"]
    /\ call = [p \in Procs |-> NoCall]
    /\ data = [p \in Procs |-> <<>>]
    /\ out = [p \in Procs |-> NoOutput]
    /\ acked = {}
    /\ prev = [op |-> "none", args |-> <<>>]

\* The world and the record of the call after a store function has run.
Done(r, op, args) ==
    /\ file' = r.w.file
    /\ dirs' = r.w.dirs
    /\ clock' = r.w.clock
    /\ last' = [op |-> op, args |-> args, ret |-> r.ret, before |-> file,
                calls |-> IF "calls" \in DOMAIN r THEN r.calls ELSE <<>>]

----------------------------------------------------------------------------
(* Store-level specification: the store functions called one at a time.    *)

Usernames == {<<"a">>, <<"b">>}
Passwords == {<<>>, <<"p">>}
FullNames == {<<>>, <<"F", " ">>}

\* A history entry; confidence in hundredths of a percent.
Item(filename, filepath, timestamp, label, confidence) ==
    [filename |-> filename, filepath |-> filepath, timestamp |-> timestamp,
     label |-> label, confidence |-> confidence]

Items == {Item(<<"x">>, <<"upload", "/", "x">>, 7, "Normal ECG", 9912)}

CreateUser ==
    \E username \in Usernames, password \in Passwords, full_name \in FullNames,
       salt \in TokenHex(SALT_BYTES) :
        /\ Done(create_user(World, username, password, full_name, salt),
                "create_user", <<username, password, full_name>>)
        /\ acked' = IF last'.ret = UserCreated
                    THEN acked \cup {<<"create_user", username, password>>}
                    ELSE acked
        /\ UNCHANGED <<sessVars, procVars, prev>>

VerifyUser ==
    \E username \in Usernames, password \in Passwords :
        /\ Done(verify_user(World, username, password),
                "verify_user", <<username, password>>)
        /\ UNCHANGED <<sessVars, procVars, acked, prev>>

AppendHistory ==
    \E username \in Usernames, item \in Items :
        /\ Has(Users, username) => Len(HistoryOf(username)) < MaxHist
        /\ Done(add_history_for_user(World, username, item),
                "add_history_for_user", <<username, item>>)
        /\ UNCHANGED <<sessVars, procVars, acked, prev>>

Next == CreateUser \/ VerifyUser \/ AppendHistory

\* The store functions do not read the model.
InitStore == Init /\ model = "loaded"

Spec == InitStore /\ [][Next]_vars

----------------------------------------------------------------------------
(* Long-history specification: one account, and an entry stamped with the  *)
(* current time appended to it at every tick.                              *)

Alice == <<"a">>

HistItem(t) == Item(<<"x">>, <<"upload", "/", "x">>, t, "Normal ECG", 9912)

Remember == prev' = [op |-> last.op, args |-> last.args]

HistCreate ==
    \E password \in Passwords, salt \in TokenHex(SALT_BYTES) :
        /\ ~Has(Users, Alice)
        /\ Done(create_user(World, Alice, password, <<>>, salt),
                "create_user", <<Alice, password, <<>>>>)
        /\ acked' = IF last'.ret = UserCreated
                    THEN acked \cup {<<"create_user", Alice, password>>}
                    ELSE acked
        /\ Remember
        /\ UNCHANGED <<sessVars, procVars>>

HistAppend ==
    /\ clock <= MaxAppends
    /\ LET r == add_history_for_user(World, Alice, HistItem(clock)) IN
       Done([r EXCEPT !.w.clock = @ + 1],
            "add_history_for_user", <<Alice, HistItem(clock)>>)
    /\ Remember
    /\ UNCHANGED <<sessVars, procVars, acked>>

NextHist == HistCreate \/ HistAppend

SpecHist == InitStore /\ [][NextHist]_vars

----------------------------------------------------------------------------
(* Session specification: one browser session; every action is one run of  *)
(* the script (run) on one widget event.                                   *)

Warning(msg) == Return(<<"warning", msg>>)
Success(msg) == Return(<<"success", msg>>)
Error(msg) == Return(<<"error", msg>>)

StoreCall(op, args, r) == [op |-> op, args |-> args, ret |-> r.ret]

\* What the text inputs of the forms are sampled at; "\t" stands for every
\* whitespace character other than U+0020.
FormNames == {<<>>, <<"a">>, <<"a", " ", "b">>, <<"\t">>, <<"a", "\t">>, <<"a", "\t", "b">>}

FormFullNames == {<<"F", " ">>}

ECG_NAMES == <<"Myocardial Infarction ECG", "History of MI ECG",
               "Abnormal Heartbeat ECG", "Normal ECG">>

\* model.predict after softmax: the class of the maximum and the maximum
\* times 100, in thousandths of a percent.
Predictions == {[argmax |-> 4, max100 |-> 47537]}

Images == {"valid", "corrupt"}

\* round(confidence, 2): thousandths to hundredths of a percent
Round2(x) == (x + 5) \div 10

classify_images(m, image, prediction) ==
    IF m = "None" THEN [kind |-> "return", label |-> "ModelNotLoaded", confidence |-> 0]
    ELSE IF image = "corrupt"
    THEN [kind |-> "raise", label |-> "", confidence |-> 0]
    ELSE [kind |-> "return", label |-> ECG_NAMES[prediction.argmax],
          confidence |-> prediction.max100]

show_signup(w, new_username, full_name, new_password, confirm_password, salt) ==
    IF new_username = <<>> \/ new_password = <<>>
    THEN [w |-> w, ret |-> Warning("Please enter a username and password."),
          calls |-> <<>>]
    ELSE IF HasSpace(new_username)
    THEN [w |-> w, ret |-> Warning("Username cannot contain spaces."), calls |-> <<>>]
    ELSE IF new_password # confirm_password
    THEN [w |-> w, ret |-> Warning("Passwords do not match."), calls |-> <<>>]
    ELSE LET r == create_user(w, Strip(new_username), new_password, Strip(full_name),
                              salt)
             c == StoreCall("create_user",
                            <<Strip(new_username), new_password, Strip(full_name)>>, r)
         IN IF r.ret.kind = "raise" THEN [w |-> r.w, ret |-> r.ret, calls |-> <<c>>]
            ELSE IF r.ret = UserCreated
            THEN [w |-> r.w, ret |-> Success("Account created. Please log in below."),
                  calls |-> <<c>>]
            ELSE [w |-> r.w, ret |-> Error(r.ret.val[2]), calls |-> <<c>>]

show_login(w, username, password) ==
    LET r == verify_user(w, Strip(username), password)
        c == StoreCall("verify_user", <<Strip(username), password>>, r)
    IN IF r.ret.kind = "raise" THEN [w |-> r.w, ret |-> r.ret, calls |-> <<c>>]
       ELSE IF r.ret = LoginSuccessful
       THEN [w |-> r.w, ret |-> Success("Logged in"), calls |-> <<c>>]
       ELSE [w |-> r.w, ret |-> Error(r.ret.val[2]), calls |-> <<c>>]

\* user_upload_ui with a file in the uploader
user_upload_ui(w, m, username, ext, image, prediction) ==
    LET safe_name == <<"ECG_", ToString(w.clock), ext>>
        file_path == UserDir(username) \o <<"/">> \o safe_name
        w1 == [w EXCEPT !.dirs = @ \cup {UserDir(username)}, !.clock = @ + 1]
        c == classify_images(m, image, prediction)
    IN IF c.kind = "raise"
       THEN [w |-> w1, ret |-> Raise("classify_images"), calls |-> <<>>]
       ELSE LET history_item == Item(safe_name, file_path, w1.clock, c.label,
                                     Round2(c.confidence))
                r == add_history_for_user([w1 EXCEPT !.clock = @ + 1], username,
                                          history_item)
                a == StoreCall("add_history_for_user", <<username, history_item>>, r)
            IN IF r.ret.kind = "raise" THEN [w |-> r.w, ret |-> r.ret, calls |-> <<a>>]
               ELSE [w |-> r.w, ret |-> Return(<<"popup", c.label>>), calls |-> <<a>>]

\* user_profile with the Re-analyze button of history[i] pressed
user_profile(w, m, username, i, image, prediction) ==
    LET ld == load_users(w) IN
    IF ~ld.doc.ok THEN [w |-> ld.w, ret |-> JSONDecodeError, calls |-> <<>>]
    ELSE LET item == Get(ld.doc.users, username).history[i]
             c == classify_images(m, image, prediction)
         IN IF c.kind = "raise"
            THEN [w |-> ld.w, ret |-> Raise("classify_images"), calls |-> <<>>]
            ELSE LET new_item == Item(item.filename, item.filepath, ld.w.clock,
                                      c.label, Round2(c.confidence))
                     r == add_history_for_user([ld.w EXCEPT !.clock = @ + 1],
                                               username, new_item)
                     a == StoreCall("add_history_for_user", <<username, new_item>>, r)
                 IN IF r.ret.kind = "raise"
                    THEN [w |-> r.w, ret |-> r.ret, calls |-> <<a>>]
                    ELSE [w |-> r.w, ret |-> Success(c.label), calls |-> <<a>>]

Anonymous == [authenticated |-> FALSE, username |-> <<>>]
Authenticated(username) == [authenticated |-> TRUE, username |-> <<username>>]

\* show_signup logging the new user in when the account is created
session_after_signup_autologin(s, ret, new_username) ==
    IF ret.val[1] = "success" THEN Authenticated(Strip(new_username)) ELSE s

\* st.session_state after show_signup: no branch assigns to it
session_after_signup(s, ret, new_username) == s

\* show_login setting the session whatever verify_user answered
session_after_login_unchecked(s, ret, username) == Authenticated(Strip(username))

\* st.session_state after show_login: set only in the branch of ok
session_after_login(s, ret, username) ==
    IF ret.val[1] = "success" THEN Authenticated(Strip(username)) ELSE s

\* st.session_state after the Logout button of main_app
session_after_logout(s) == Anonymous

Signup ==
    /\ ~session.authenticated
    /\ clock < MaxClock
    /\ \E new_username \in FormNames, full_name \in FormFullNames,
          new_password \in Passwords, confirm_password \in Passwords,
          salt \in TokenHex(SALT_BYTES) :
        /\ Done(show_signup(ensure_files(World), new_username, full_name,
                            new_password, confirm_password, salt),
                "signup", <<new_username, new_password, confirm_password, full_name>>)
        /\ session' = session_after_signup(session, last'.ret, new_username)
    /\ UNCHANGED <<model, procVars, acked, prev>>

Login ==
    /\ ~session.authenticated
    /\ \E username \in FormNames, password \in Passwords :
        /\ Done(show_login(ensure_files(World), username, password),
                "login", <<username, password>>)
        /\ session' = session_after_login(session, last'.ret, username)
    /\ UNCHANGED <<model, procVars, acked, prev>>

Logout ==
    /\ session.authenticated
    /\ Done([w |-> ensure_files(World), ret |-> None], "logout", <<>>)
    /\ session' = session_after_logout(session)
    /\ UNCHANGED <<model, procVars, acked, prev>>

Analyze ==
    /\ session.authenticated
    /\ clock + 1 < MaxClock
    /\ \E image \in Images, prediction \in Predictions :
        Done(user_upload_ui(ensure_files(World), model, session.username[1], ".png",
                            image, prediction),
             "analyze", <<session.username[1], image>>)
    /\ UNCHANGED <<sessVars, procVars, acked, prev>>

\* The buttons of the first ten entries are drawn in order, each with the
\* key "rean_" + filename; drawing stops at the first repeated key.
Drawn(history, i) ==
    /\ i <= Len(history) /\ i <= 10
    /\ \A j, k \in 1..i : j # k => history[j].filename # history[k].filename

Reanalyze ==
    /\ session.authenticated
    /\ clock < MaxClock
    /\ Has(Users, session.username[1])
    /\ \E i \in 1..10, image \in Images, prediction \in Predictions :
        /\ Drawn(HistoryOf(session.username[1]), i)
        /\ Done(user_profile(ensure_files(World), model, session.username[1], i,
                             image, prediction),
                "reanalyze", <<session.username[1], i, image>>)
    /\ UNCHANGED <<sessVars, procVars, acked, prev>>

\* The page "Profile & History" drawn with no button pressed
ShowProfile ==
    /\ session.authenticated
    /\ LET ld == load_users(ensure_files(World)) IN
       Done([w |-> ld.w, ret |-> IF ld.doc.ok THEN None ELSE JSONDecodeError],
            "profile", <<session.username[1]>>)
    /\ UNCHANGED <<sessVars, procVars, acked, prev>>

NextApp == Signup \/ Login \/ Logout \/ Analyze \/ Reanalyze \/ ShowProfile

SpecApp == Init /\ [][NextApp]_vars

----------------------------------------------------------------------------
(* Concurrent specification: two script runs (threads of the server) call  *)
(* the store functions; every action is one access to the file system.     *)

\* The file after toks are written at offset pos of text; bytes skipped
\* beyond the end of the file read as zeros.
Hole == [t |-> "0"]

WriteAt(text, pos, toks) ==
    LET n == IF Len(text) > pos + Len(toks) THEN Len(text) ELSE pos + Len(toks) IN
    [i \in 1..n |->
        IF i > pos /\ i <= pos + Len(toks) THEN toks[i - pos]
        ELSE IF i <= Len(text) THEN text[i]
        ELSE Hole]

ConcCalls ==
    {[op |-> "create_user", args |-> <<u, pw, <<>>>>] : u \in Usernames, pw \in Passwords}
    \cup {[op |-> "add_history_for_user", args |-> <<u>>] : u \in Usernames}
    \cup {[op |-> "verify_user", args |-> <<Alice, <<"p">>>>]}

Returns(p, ret) ==
    /\ pc' = [pc EXCEPT ![p] = "idle"]
    /\ call' = [call EXCEPT ![p].ret = ret]

\* The call and the first step of load_users: ensure_files up to
\* os.path.exists.  The clock ticks once per call.
Call(p) ==
    /\ pc[p] = "idle"
    /\ clock < MaxCalls
    /\ \E c \in ConcCalls :
         call' = [call EXCEPT ![p] = [op |-> c.op, ret |-> None, before |-> EmptyFile,
                                     calls |-> <<>>,
                                     args |-> IF c.op = "add_history_for_user"
                                              THEN c.args \o <<HistItem(clock)>>
                                              ELSE c.args]]
    /\ clock' = clock + 1
    /\ dirs' = dirs \cup {BASE_UPLOAD_DIR}
    /\ pc' = [pc EXCEPT ![p] = IF file.exists THEN "read" ELSE "ensure_open"]
    /\ UNCHANGED <<file, last, sessVars, data, out, acked, prev>>

\* ensure_files: open(USERS_FILE, "w") creates or truncates the file
EnsureOpen(p) ==
    /\ pc[p] = "ensure_open"
    /\ file' = [exists |-> TRUE, text |-> <<>>]
    /\ out' = [out EXCEPT ![p] = [toks |-> Dump(<<>>), pos |-> 0]]
    /\ pc' = [pc EXCEPT ![p] = "ensure_write"]
    /\ UNCHANGED <<dirs, clock, last, sessVars, call, data, acked, prev>>

\* ensure_files: json.dump and the close of the with block
EnsureWrite(p) ==
    /\ pc[p] = "ensure_write"
    /\ file' = [file EXCEPT !.text = WriteAt(@, out[p].pos, out[p].toks)]
    /\ out' = [out EXCEPT ![p] = NoOutput]
    /\ pc' = [pc EXCEPT ![p] = "read"]
    /\ UNCHANGED <<dirs, clock, last, sessVars, call, data, acked, prev>>

\* load_users: json.load, and the caller's code up to its return or to
\* save_users; a verify_user that show_login called and that accepted the
\* password logs the session in
Read(p) ==
    /\ pc[p] = "read"
    /\ LET doc == Load(file.text)
           c == call[p]
           username == c.args[1]
       IN IF ~doc.ok
          THEN Returns(p, JSONDecodeError) /\ UNCHANGED <<data, acked>>
          ELSE IF c.op = "verify_user"
          THEN /\ Returns(p, verify_user(World, username, c.args[2]).ret)
               /\ UNCHANGED <<data, acked>>
          ELSE IF c.op = "create_user"
          THEN IF Has(doc.users, username)
               THEN Returns(p, AlreadyExists) /\ UNCHANGED <<data, acked>>
               ELSE \E salt \in TokenHex(SALT_BYTES) :
                      /\ data' = [data EXCEPT ![p] =
                                    Put(doc.users, NewUser(username, c.args[2], c.args[3],
                                                           salt, clock))]
                      /\ pc' = [pc EXCEPT ![p] = "save_open"]
                      /\ UNCHANGED <<call, acked>>
          ELSE IF Has(doc.users, username)
               THEN /\ data' = [data EXCEPT ![p] =
                                   InsertItem(doc.users, username, c.args[2])]
                    /\ pc' = [pc EXCEPT ![p] = "save_open"]
                    /\ UNCHANGED <<call, acked>>
               ELSE Returns(p, None) /\ UNCHANGED <<data, acked>>
    /\ session' = IF call[p].op = "verify_user"
                  THEN session_after_login(session,
                           show_login(World, call[p].args[1], call[p].args[2]).ret,
                           call[p].args[1])
                  ELSE session
    /\ UNCHANGED <<file, dirs, clock, last, model, out, prev>>

\* save_users: open(USERS_FILE, "w") truncates the file
SaveOpen(p) ==
    /\ pc[p] = "save_open"
    /\ file' = [exists |-> TRUE, text |-> <<>>]
    /\ out' = [out EXCEPT ![p] = [toks |-> Dump(data[p]), pos |-> 0]]
    /\ pc' = [pc EXCEPT ![p] = "save_write"]
    /\ UNCHANGED <<dirs, clock, last, sessVars, call, data, acked, prev>>

\* save_users: the buffer of the file object fills during json.dump and
\* is written out
SaveFlush(p) ==
    /\ pc[p] = "save_write"
    /\ out[p].pos = 0
    /\ \E k \in 1..(Len(out[p].toks) - 1) :
         /\ file' = [file EXCEPT !.text = WriteAt(@, out[p].pos, Take(out[p].toks, k))]
         /\ out' = [out EXCEPT ![p] = [toks |-> SubSeq(@.toks, k + 1, Len(@.toks)),
                                       pos |-> @.pos + k]]
    /\ UNCHANGED <<dirs, clock, last, sessVars, pc, call, data, acked, prev>>

\* save_users: the close of the with block writes what is left; the caller
\* then returns (create_user after os.makedirs)
SaveClose(p) ==
    /\ pc[p] = "save_write"
    /\ file' = [file EXCEPT !.text = WriteAt(@, out[p].pos, out[p].toks)]
    /\ out' = [out EXCEPT ![p] = NoOutput]
    /\ IF call[p].op = "create_user"
       THEN /\ dirs' = dirs \cup {UserDir(call[p].args[1])}
            /\ Returns(p, UserCreated)
            /\ acked' = acked \cup {<<"create_user", call[p].args[1], call[p].args[2]>>}
       ELSE /\ dirs' = dirs
            /\ Returns(p, None)
            /\ acked' = acked \cup {<<"add_history_for_user", call[p].args[1],
                                      call[p].args[2]>>}
    /\ UNCHANGED <<clock, last, sessVars, data, prev>>

NextConc ==
    \E p \in Procs :
        \/ Call(p)
        \/ EnsureOpen(p)
        \/ EnsureWrite(p)
        \/ Read(p)
        \/ SaveOpen(p)
        \/ SaveFlush(p)
        \/ SaveClose(p)

SpecConc == InitStore /\ [][NextConc]_vars

----------------------------------------------------------------------------
(* I/O-failure specification: the store functions called one at a time on  *)
(* a file system whose open, write and mkdir can fail with OSError.        *)

OSError == Raise("OSError")

\* The step of a mutating call at which the file system fails, if any.
Faults == {"none", "open", "write", "mkdir"}

\* save_users on a failing file system: open(USERS_FILE, "w") raises and
\* the file is untouched, or it truncates the file and a write of
\* json.dump raises after k tokens have reached the file.
save_users_io(w, users, fault, k) ==
    IF fault = "open" THEN [w |-> w, ret |-> OSError]
    ELSE IF fault = "write"
    THEN [w |-> [w EXCEPT !.file = [exists |-> TRUE, text |-> Take(Dump(users), k)]],
          ret |-> OSError]
    ELSE [w |-> save_users(w, users), ret |-> None]

\* create_user on a failing file system; os.makedirs of the user's upload
\* directory runs after save_users has returned.
create_user_io(w, username, password, full_name, salt, fault, k) ==
    LET ld == load_users(w) IN
    IF ~ld.doc.ok THEN [w |-> ld.w, ret |-> JSONDecodeError]
    ELSE IF Has(ld.doc.users, username) THEN [w |-> ld.w, ret |-> AlreadyExists]
    ELSE LET rec == NewUser(username, password, full_name, salt, ld.w.clock)
             s == save_users_io(ld.w, Put(ld.doc.users, rec), fault, k)
         IN IF s.ret.kind = "raise" THEN [w |-> s.w, ret |-> s.ret]
            ELSE IF fault = "mkdir"
            THEN [w |-> [s.w EXCEPT !.clock = @ + 1], ret |-> OSError]
            ELSE [w |-> [s.w EXCEPT !.clock = @ + 1,
                                    !.dirs = @ \cup {UserDir(username)}],
                  ret |-> UserCreated]

\* add_history_for_user on a failing file system
add_history_for_user_io(w, username, item, fault, k) ==
    LET ld == load_users(w) IN
    IF ~ld.doc.ok THEN [w |-> ld.w, ret |-> JSONDecodeError]
    ELSE IF Has(ld.doc.users, username)
    THEN save_users_io(ld.w, InsertItem(ld.doc.users, username, item), fault, k)
    ELSE [w |-> ld.w, ret |-> None]

\* The number of tokens a failing write can leave in the file.
Written == 0..1

IOCreateUser ==
    \E username \in Usernames, password \in {<<"p">>}, salt \in TokenHex(SALT_BYTES),
       fault \in Faults, k \in Written :
        /\ fault # "write" => k = 0
        /\ Done(create_user_io(World, username, password, <<>>, salt, fault, k),
                "create_user", <<username, password, <<>>>>)
        /\ acked' = IF last'.ret = UserCreated
                    THEN acked \cup {<<"create_user", username, password>>}
                    ELSE acked
        /\ UNCHANGED <<sessVars, procVars, prev>>

IOAppendHistory ==
    \E username \in Usernames, item \in Items, fault \in Faults \ {"mkdir"},
       k \in Written :
        /\ fault # "write" => k = 0
        /\ Has(Users, username) => Len(HistoryOf(username)) < MaxHist
        /\ Done(add_history_for_user_io(World, username, item, fault, k),
                "add_history_for_user", <<username, item>>)
        /\ UNCHANGED <<sessVars, procVars, acked, prev>>

NextIO == IOCreateUser \/ IOAppendHistory

SpecIO == InitStore /\ [][NextIO]_vars

----------------------------------------------------------------------------
(* Properties of the store-level specification *)

Created(username, password) == <<"create_user", username, password>> \in acked

\* C1: for every username that is not yet a key and every password,
\* create_user returns (True, "User created.") and stores a record that
\* verify_user accepts with the same password; and whatever calls came in
\* between (other users' create_user and add_history_for_user included),
\* verify_user with the username and password of a create_user that
\* succeeded returns (True, "Login successful.").
C1_CreateThenVerify ==
    /\ (last.op = "create_user" /\ ~Has(Before, last.args[1]))
          => /\ last.ret = UserCreated
             /\ Has(Users, last.args[1])
             /\ verify_user(World, last.args[1], last.args[2]).ret = LoginSuccessful
    /\ (last.op = "verify_user" /\ Created(last.args[1], last.args[2]))
          => last.ret = LoginSuccessful

\* C1 witness: verify_user accepted the first user's credentials after a
\* second user was created and given a history entry.
C1_Witness ==
    /\ last.op = "verify_user" /\ last.ret = LoginSuccessful
    /\ Len(Users) = 2 /\ last.args[1] = Users[1].name
    /\ Users[2].history # <<>>

\* C2: create_user with a username that is already a key returns
\* (False, "Username already exists.") and leaves the document, the record
\* of that user included, exactly as it was, whatever password and full
\* name the call carries.
C2_DuplicateRejected ==
    (last.op = "create_user" /\ Has(Before, last.args[1]))
        => /\ last.ret = AlreadyExists
           /\ Users = Before
           /\ file = last.before

\* C2 witness: a second create_user for an existing key, with another
\* password and another full name than the stored record's, was rejected.
C2_Witness ==
    /\ last.op = "create_user" /\ last.ret = AlreadyExists
    /\ ~Created(last.args[1], last.args[2])
    /\ Get(Users, last.args[1]).full_name # last.args[3]
    /\ Get(Users, last.args[1]).history # <<>>

\* C3: verify_user with a stored username and a password other than the
\* one given at creation returns (False, "Incorrect password."), and with a
\* username that is no key it returns (False, "Username not found.")
\* whatever the password.
C3_VerifyFailures ==
    last.op = "verify_user" =>
        /\ ~Has(Before, last.args[1]) => last.ret = NotFound
        /\ (Has(Before, last.args[1]) /\ ~Created(last.args[1], last.args[2]))
              => last.ret = WrongPassword

\* C3 witness: a wrong password for the stored user was refused while the
\* other username is unknown.
C3_Witness ==
    /\ last.op = "verify_user" /\ last.ret = WrongPassword
    /\ Len(Users) = 1

\* C7: add_history_for_user with a username that is no key of the database
\* returns without an error and leaves every record as it was: none is
\* created and no history changes.
C7_UnknownUserNoOp ==
    (last.op = "add_history_for_user" /\ ~Has(Before, last.args[1]))
        => /\ last.ret = None
           /\ Users = Before
           /\ ~Has(Users, last.args[1])

\* C7 witness: an append for an unknown username returned while another
\* user with a history exists.
C7_Witness ==
    /\ last.op = "add_history_for_user" /\ last.ret = None
    /\ ~Has(Before, last.args[1])
    /\ Len(Users) = 1 /\ Users[1].history # <<>>

\* The fields of a record that are set at creation.
Identity(rec) ==
    [name |-> rec.name, salt |-> rec.salt, pwd_hash |-> rec.pwd_hash,
     created_at |-> rec.created_at, full_name |-> rec.full_name]

\* C14: no store call removes a record or changes the salt, the password
\* hash, the creation time or the full name of one: the records the call
\* found are still there, in their order, with these fields as they were;
\* create_user and verify_user leave their histories alone as well, and
\* add_history_for_user(u, item) changes nothing but the history of u.
C14_RecordsImmutable ==
    /\ Len(Users) >= Len(Before)
    /\ \A i \in 1..Len(Before) : Identity(Users[i]) = Identity(Before[i])
    /\ last.op \in {"create_user", "verify_user"}
          => \A i \in 1..Len(Before) : Users[i] = Before[i]
    /\ last.op = "add_history_for_user"
          => /\ Len(Users) = Len(Before)
             /\ \A i \in 1..Len(Before) :
                   Before[i].name # last.args[1] => Users[i] = Before[i]

\* C14 witness: an entry was appended to the second user's history while
\* the first user has a history of their own.
C14_Witness ==
    /\ last.op = "add_history_for_user"
    /\ Len(Users) = 2 /\ last.args[1] = Users[2].name
    /\ Users[2].history # Before[2].history
    /\ Users[1].history # <<>>

\* C15: ensure_files creates the empty database {"users": {}} when
\* users.json is absent, and a call that finds the file leaves it as it
\* is: calling it again, alone or through load_users, changes nothing, and
\* a call that only loads (verify_user) leaves the users and histories it
\* found.
C15_EnsureFilesIdempotent ==
    LET w1 == ensure_files(World) IN
    /\ w1.file.exists
    /\ ~file.exists => Load(w1.file.text) = [ok |-> TRUE, users |-> <<>>]
    /\ file.exists => w1.file = file
    /\ ensure_files(w1) = w1
    /\ load_users(w1).w = w1
    /\ last.op # "none" => file.exists
    /\ (last.op = "verify_user" /\ last.before.exists) => file = last.before

\* C15 witness: a load found a document with two users and a history and
\* left it as it was.
C15_Witness ==
    /\ last.op = "verify_user" /\ last.before.exists
    /\ Len(Users) = 2 /\ Users[1].history # <<>>
    /\ ensure_files(World).file = file

IsHex(s) == \A i \in 1..Len(s) : \E d \in 1..16 : s[i] = HexDigits[d]

\* C16: the salt create_user stores for a new account is the hex encoding
\* of at least 16 random bytes: a string of hex digits, two for each byte,
\* at least 32 of them.
C16_SaltSixteenBytes ==
    \A i \in 1..Len(Users) :
        /\ IsHex(Users[i].salt)
        /\ Len(Users[i].salt) % 2 = 0
        /\ Len(Users[i].salt) \div 2 >= 16

----------------------------------------------------------------------------
(* Properties of the long-history specification *)

Min(a, b) == IF a < b THEN a ELSE b

\* The entries appended to Alice since her account was created: those
\* stamped created_at + 1 .. clock - 1.
Appended == clock - 1 - Get(Users, Alice).created_at

\* C5: no history has more than 50 entries, and a history to which n
\* entries were appended holds the min(n, 50) most recent of them, newest
\* first; after 52 appends T1..T52 its first entry is T52 and its 50th T3.
C5_HistoryCapped ==
    /\ \A i \in 1..Len(Users) : Len(Users[i].history) <= 50
    /\ Has(Users, Alice) =>
         /\ HistoryOf(Alice) =
               [i \in 1..Min(Appended, 50) |-> HistItem(clock - i)]
         /\ Appended = 52 =>
               LET T(k) == Get(Users, Alice).created_at + k IN
               /\ Len(HistoryOf(Alice)) = 50
               /\ HistoryOf(Alice)[1].timestamp = T(52)
               /\ HistoryOf(Alice)[50].timestamp = T(3)

\* C5 witness: 52 entries have been appended to the account.
C5_Witness ==
    /\ Has(Users, Alice) /\ Appended = 52
    /\ last.op = "add_history_for_user"

\* C6: add_history_for_user for an existing user puts the entry at
\* history[0] with the entries that were there before behind it in their
\* order; after two appends E1 then E2, history[0] = E2 and history[1] = E1.
C6_NewestFirst ==
    (last.op = "add_history_for_user" /\ Has(Before, last.args[1])) =>
        LET u == last.args[1]
            h == HistoryOf(u)
            old == Get(Before, u).history
        IN /\ h[1] = last.args[2]
           /\ \A i \in 2..Len(h) : h[i] = old[i - 1]
           /\ Len(h) = Min(Len(old) + 1, 50)
           /\ (prev.op = "add_history_for_user" /\ prev.args[1] = u
               /\ Len(old) > 0)
                 => h[2] = prev.args[2]

\* C6 witness: two appends in a row to an account that already had entries.
C6_Witness ==
    /\ last.op = "add_history_for_user" /\ prev.op = "add_history_for_user"
    /\ Has(Before, Alice)
    /\ Len(HistoryOf(Alice)) = 4
    /\ HistoryOf(Alice)[1] = last.args[2] /\ HistoryOf(Alice)[2] = prev.args[2]
    /\ last.args[2] # prev.args[2]

----------------------------------------------------------------------------
(* Properties of the concurrent specification *)

AllReturned == \A p \in Procs : pc[p] = "idle"

\* The effect of a mutating call that returned is in the document on disk.
InEffect(c) ==
    /\ Has(Users, c[2])
    /\ c[1] = "add_history_for_user" =>
         \E i \in 1..Len(HistoryOf(c[2])) : HistoryOf(c[2])[i] = c[3]

\* C4: the read-modify-write cycles of concurrent create_user and
\* add_history_for_user calls do not interleave so as to lose an update:
\* once the calls have returned, the document holds the user of every
\* create_user that returned (True, "User created.") and the entry of every
\* add_history_for_user that saved.
C4_NoLostUpdate == AllReturned => \A c \in acked : InEffect(c)

\* C10: no load of users.json meets an empty, truncated or half-written
\* document: json.load never raises JSONDecodeError in any script run.
C10_ReaderSeesValidDocument == \A p \in Procs : call[p].ret # JSONDecodeError

\* C17: when two script runs call create_user with the same username, at
\* most one of the calls returns (True, "User created."), and the record in
\* the document is the one that call wrote: verify_user accepts the
\* password of the caller who was told the user was created.
C17_OneCreateWins ==
    (/\ AllReturned
     /\ \A p \in Procs : call[p].op = "create_user"
     /\ call[1].args[1] = call[2].args[1])
        => /\ ~(call[1].ret = UserCreated /\ call[2].ret = UserCreated)
           /\ \A p \in Procs :
                 call[p].ret = UserCreated
                    => verify_user(World, call[p].args[1], call[p].args[2]).ret
                          = LoginSuccessful

\* C20: the username of an authenticated session is a key of the
\* database, so that add_history_for_user for the session's user finds the
\* record; stated for the states in which no call is under way and
\* users.json is a well-formed document.
C20_SessionUserIsKey ==
    (session.authenticated /\ AllReturned /\ Load(file.text).ok)
        => Has(Users, session.username[1])

----------------------------------------------------------------------------
(* Properties of the session specification *)

HasWhitespace(s) == \E i \in 1..Len(s) : s[i] \in Whitespace

\* C8: when the username is empty or contains a whitespace character, the
\* password is empty, or the password differs from its confirmation, the
\* sign-up form answers with a warning, create_user is not called and the
\* document is left as it was.
C8_SignupValidatesFirst ==
    (/\ last.op = "signup"
     /\ \/ last.args[1] = <<>>
        \/ HasWhitespace(last.args[1])
        \/ last.args[2] = <<>>
        \/ last.args[2] # last.args[3])
        => /\ last.ret.val[1] = "warning"
           /\ last.calls = <<>>
           /\ Users = Before

\* C9: when the model is not loaded or classify_images fails on the
\* uploaded image, the upload handler still completes, and the entry it
\* built, with the label "ModelNotLoaded" and confidence 0.0, is history[0]
\* of the session's user.
C9_ClassifierFailureDegrades ==
    (/\ last.op = "analyze"
     /\ model = "None" \/ last.args[2] = "corrupt")
        => /\ last.ret.kind = "return"
           /\ Len(last.calls) = 1
           /\ last.calls[1].args[2].label = "ModelNotLoaded"
           /\ last.calls[1].args[2].confidence = 0
           /\ HistoryOf(last.args[1])[1] = last.calls[1].args[2]

----------------------------------------------------------------------------
(* Properties of the I/O-failure specification *)

\* C11: when the write of users.json or the creation of the user's upload
\* directory fails in create_user or add_history_for_user, the call ends
\* with the OSError and the database is as the call found it: a valid
\* document holding no record and no history entry of the failed call.
C11_FailedStepCommitsNothing ==
    (last.op \in {"create_user", "add_history_for_user"} /\ last.ret = OSError)
        => /\ Load(file.text).ok
           /\ Users = Before

----------------------------------------------------------------------------
(* Further properties of the session specification *)

\* C12: a sign-up that succeeds leaves the session Anonymous; the session
\* is Authenticated only after a login that succeeded, and then with the
\* stripped username of that login.
C12_SignupStaysAnonymous ==
    /\ (last.op = "signup" /\ last.ret.val[1] = "success") => session = Anonymous
    /\ session.authenticated
          => last.op \in {"login", "analyze", "reanalyze", "profile"}
    /\ (session.authenticated /\ last.op = "login")
          => /\ last.ret = Success("Logged in")
             /\ session = Authenticated(Strip(last.args[1]))

\* C12 witness: the account made by a sign-up is logged in by a later login.
C12_Witness ==
    /\ last.op = "login" /\ last.ret = Success("Logged in")
    /\ session = Authenticated(<<"a">>)
    /\ Has(Users, <<"a">>)

\* C13: the Re-analyze button of an entry of the history inserts a new
\* entry and updates none in place: afterwards history[0] has the filename
\* and the file path of that entry and a later timestamp than every entry
\* before, and the entries that were there follow it in their order, one
\* position later, those pushed beyond position 50 dropped.
C13_ReanalyzeInsertsNewEntry ==
    last.op = "reanalyze" =>
        LET u == last.args[1]
            old == Get(Before, u).history
            h == HistoryOf(u)
            existing == old[last.args[2]]
        IN /\ Len(h) = Min(Len(old) + 1, 50)
           /\ h[1].filename = existing.filename
           /\ h[1].filepath = existing.filepath
           /\ \A j \in 1..Len(old) : h[1].timestamp > old[j].timestamp
           /\ \A j \in 2..Len(h) : h[j] = old[j - 1]

\* C18: the session changes only in two ways: a login whose verify_user
\* returned (True, "Login successful.") takes it from Anonymous to
\* Authenticated(u), u the stripped username given to verify_user, and
\* Logout takes it to Anonymous.  A login that verify_user refused leaves
\* it Anonymous, and sign-up, analyze, re-analyze and the history page
\* leave the state and the username as they are.
C18_SessionMachine ==
    [][/\ (session' # session /\ session'.authenticated)
            => /\ session = Anonymous
               /\ last'.op = "login"
               /\ Len(last'.calls) = 1
               /\ last'.calls[1].op = "verify_user"
               /\ last'.calls[1].ret = LoginSuccessful
               /\ session' = Authenticated(last'.calls[1].args[1])
       /\ (session' # session /\ ~session'.authenticated)
            => /\ last'.op = "logout"
               /\ session' = Anonymous
       /\ (last'.op = "login" /\ last'.calls[1].ret \in {NotFound, WrongPassword})
            => session' = Anonymous
       /\ last'.op \in {"signup", "analyze", "reanalyze", "profile"}
            => session' = session
      ]_vars

\* C18 witness: a session that was logged in has logged out, and a login
\* with a wrong password has then left it Anonymous.
C18_Witness ==
    /\ last.op = "login" /\ last.calls[1].ret = WrongPassword
    /\ session = Anonymous
    /\ Has(Users, Strip(last.args[1]))
    /\ HistoryOf(Strip(last.args[1])) # <<>>

\* C19: every key of the database that sign-up can produce is a non-empty
\* username with no whitespace character in it, and the username show_signup
\* passes to create_user after strip() is non-empty, free of whitespace and
\* equal to the username that was validated.
C19_KeysValidated ==
    /\ \A i \in 1..Len(Users) :
          Users[i].name # <<>> /\ ~HasWhitespace(Users[i].name)
    /\ (last.op = "signup" /\ last.calls # <<>>)
          => LET username == last.calls[1].args[1] IN
             /\ username # <<>>
             /\ ~HasWhitespace(username)
             /\ username = last.args[1]

====
